---- MODULE Spec2Model ----
(***************************************************************************)
(* Attendance reconciliation core of llw32-vice-chair.                     *)
(*                                                                         *)
(* Client: src/src/app/(dashboard)/attendance/page.tsx (AttendancePage):   *)
(*   the ledger (memberAttendance / guestAttendance / pipelinerAttendance  *)
(*   with their *InitialRef baselines), the diff and merge inside          *)
(*   saveAttendance, the autosave effect and loadAttendance.               *)
(* Gateway: the POST handler of the attendance save route, found in        *)
(*   src/src/components/reports/PdfReportHeader.tsx lines 66-385.          *)
(*                                                                         *)
(* A React event handler, the render it causes and the effects of that     *)
(* render are one step.  The suspension points of the client's async       *)
(* functions (await fetch, the select of loadAttendance, the reloads after *)
(* a merge) separate steps.  One run of the POST handler is one step: it   *)
(* shares no state with another run except the table, which it changes at  *)
(* commit (direct connection) or statement by statement (API clients).     *)
(*                                                                         *)
(* The handlers are the operations of the page: each is enabled whenever   *)
(* its own code lets it run.  The `disabled` props of the controls         *)
(* (page.tsx 1236, 1376, 1401, 1451, 1496, 1525) belong to the rendered    *)
(* markup, which is not modelled.                                          *)
(***************************************************************************)
EXTENDS Integers, Sequences, FiniteSets, TLC

\* ------------------------------------------------------------------ bounds
\* The user acts (an edit, a click on Save, a change of meeting) at most MaxActions times.
MaxActions == 2
\* gen_random_uuid() is a counter here; identifiers above MaxIds are never handed out.
MaxIds == 5

\* ------------------------------------------------------------------ values
\* JavaScript null / undefined of an identifier (attendanceId, id).
NullId == 0
\* JavaScript null / undefined of a string (status, member_id, guest_id, pipeliner_id).
Null == "null"
\* useState<string>("") of selectedMeetingId: no meeting selected (falsy).
NoMeeting == ""

Meetings == {"A", "B"}
\* Attendance["status"]
Statuses == {"present", "apology", "absent"}

\* The lists returned by useMembers / loadGuests / loadPipeliners, in list order.
members == <<"m1">>
guests == <<"g1">>
pipelinerEligibility == <<"p1">>

Range(s) == {s[i] : i \in DOMAIN s}
MemberIds == Range(members)
GuestIds == Range(guests)
PipelinerIds == Range(pipelinerEligibility)
Subjects == MemberIds \cup GuestIds \cup PipelinerIds

\* ------------------------------------------------------------------ state
VARIABLES
  env,                  \* process.env seen by the route: which configuration is present
  store,                \* the attendance table (committed rows), keyed by id
  nextId,               \* the next identifier gen_random_uuid() hands out
  calls,                \* saveAttendance invocations suspended at an await
  loads,                \* loadAttendance invocations suspended at the select
  actions,              \* how many times the user has acted
  selectedMeetingId,
  memberAttendance, guestAttendance, pipelinerAttendance,
  memberInitialRef, guestInitialRef, pipelinerInitialRef,
  saving, autoSaveTimer, autoSaveScheduled,
  edited,               \* history: subjects edited since the in-flight batch was computed
  last                  \* history: the step that led to this state

ledgerVars == <<memberAttendance, guestAttendance, pipelinerAttendance,
                memberInitialRef, guestInitialRef, pipelinerInitialRef>>
schedVars == <<saving, autoSaveTimer, autoSaveScheduled>>
clientVars == <<selectedMeetingId, ledgerVars, schedVars, loads, actions, edited>>
serverVars == <<env, store, nextId>>
vars == <<serverVars, calls, clientVars, last>>

\* ------------------------------------------------------------------ ledger entries
\* MemberAttendanceEntry / GuestAttendanceEntry / PipelinerAttendanceEntry
MemberEntry(id, st) == [attendanceId |-> id, status |-> st]
GuestEntry(id, att) == [attendanceId |-> id, attended |-> att]
\* the literal defaults `{ attendanceId: null, status: null }` and
\* `{ attendanceId: null, attended: false }`
DefaultMember == MemberEntry(NullId, Null)
DefaultGuest == GuestEntry(NullId, FALSE)

\* map[key] ?? fallback for a Record<string, Entry>
Lookup(map, key, fallback) == IF key \in DOMAIN map THEN map[key] ELSE fallback

\* prev[id] ?? initialRef[id] ?? default
Existing(prev, ref, key, dflt) == Lookup(prev, key, Lookup(ref, key, dflt))

\* existing.attendanceId ?? initialRef[id]?.attendanceId ?? null
KeepId(existing, ref, key) ==
  IF existing.attendanceId # NullId THEN existing.attendanceId
  ELSE IF key \in DOMAIN ref THEN ref[key].attendanceId ELSE NullId

\* {...prev, [key]: value}
Put(map, key, value) == [k \in DOMAIN map \cup {key} |-> IF k = key THEN value ELSE map[k]]

\* snapshotMemberAttendance(map): a copy, entry by entry
snapshotMemberAttendance(map) ==
  [k \in DOMAIN map |-> MemberEntry(map[k].attendanceId, map[k].status)]

\* snapshotGuestAttendance(map) / snapshotPipelinerAttendance(map)
snapshotGuestAttendance(map) ==
  [k \in DOMAIN map |-> GuestEntry(map[k].attendanceId, map[k].attended)]

\* ------------------------------------------------------------------ edits
\* variant of handleMemberStatusChange that writes an entry without attendanceId
handleMemberStatusChangeNewEntry(prev, ref, memberId, nextStatus) ==
  Put(prev, memberId, MemberEntry(NullId, nextStatus))

\* handleMemberStatusChange(memberId, nextStatus): the new memberAttendance
handleMemberStatusChange(prev, ref, memberId, nextStatus) ==
  LET existing == Existing(prev, ref, memberId, DefaultMember)
  IN Put(prev, memberId, MemberEntry(KeepId(existing, ref, memberId), nextStatus))

\* handleGuestToggle(guestId, attended) and handlePipelinerToggle(pipelinerId, attended)
handleGuestToggle(prev, ref, guestId, attended) ==
  LET existing == Existing(prev, ref, guestId, DefaultGuest)
  IN Put(prev, guestId, GuestEntry(KeepId(existing, ref, guestId), attended))

\* handleMarkAllPresent(): loop over `members`
RECURSIVE MarkAllFrom(_, _, _)
MarkAllFrom(i, next, ref) ==
  IF i > Len(members) THEN next
  ELSE LET existing == Existing(next, ref, members[i], DefaultMember)
       IN MarkAllFrom(i + 1,
            Put(next, members[i], MemberEntry(KeepId(existing, ref, members[i]), "present")),
            ref)

\* variant of handleMarkAllPresent that leaves a member who has a status as it is
handleMarkAllPresentOnlyUnset(prev, ref) ==
  [m \in DOMAIN MarkAllFrom(1, prev, ref) |->
     IF Existing(prev, ref, m, DefaultMember).status # Null
       THEN Existing(prev, ref, m, DefaultMember)
     ELSE MarkAllFrom(1, prev, ref)[m]]

handleMarkAllPresent(prev, ref) == MarkAllFrom(1, prev, ref)

\* MemberStatusButtons / MemberAttendanceCard: onChange(isActive ? null : value)
ButtonNext(status, value) == IF status = value THEN Null ELSE value

\* ------------------------------------------------------------------ dirty state
\* hasUnsavedMemberChanges
hasUnsavedMemberChanges(mA, mI) ==
  \E i \in DOMAIN members :
    Lookup(mA, members[i], DefaultMember).status # Lookup(mI, members[i], DefaultMember).status

\* hasUnsavedGuestChanges / hasUnsavedPipelinerChanges over the given list
hasUnsavedToggleChanges(list, gA, gI) ==
  \E i \in DOMAIN list :
    Lookup(gA, list[i], DefaultGuest).attended # Lookup(gI, list[i], DefaultGuest).attended

\* the test of one subject inside the three `some(...)` above
IsDirty(mA, mI, gA, gI, pA, pI, sid) ==
  IF sid \in MemberIds
    THEN Lookup(mA, sid, DefaultMember).status # Lookup(mI, sid, DefaultMember).status
  ELSE IF sid \in GuestIds
    THEN Lookup(gA, sid, DefaultGuest).attended # Lookup(gI, sid, DefaultGuest).attended
  ELSE Lookup(pA, sid, DefaultGuest).attended # Lookup(pI, sid, DefaultGuest).attended

hasUnsavedChanges(mA, mI, gA, gI, pA, pI) ==
  \/ hasUnsavedMemberChanges(mA, mI)
  \/ hasUnsavedToggleChanges(guests, gA, gI)
  \/ hasUnsavedToggleChanges(pipelinerEligibility, pA, pI)

\* ------------------------------------------------------------------ diff
\* variant of the upsert rows that also names the subject as member
UpsertInputAlsoMember(id, meeting, kind, sid, status) ==
  [id |-> id, meeting_id |-> meeting,
   member_id |-> sid,
   guest_id |-> IF kind = "guest" THEN sid ELSE Null,
   pipeliner_id |-> IF kind = "pipeliner" THEN sid ELSE Null,
   status |-> status]

\* AttendanceUpsertInput; the keys a row does not set are undefined (Null)
UpsertInput(id, meeting, kind, sid, status) ==
  [id |-> id, meeting_id |-> meeting,
   member_id |-> IF kind = "member" THEN sid ELSE Null,
   guest_id |-> IF kind = "guest" THEN sid ELSE Null,
   pipeliner_id |-> IF kind = "pipeliner" THEN sid ELSE Null,
   status |-> status]

NoDiff == [upserts |-> <<>>, deletions |-> <<>>, names |-> <<>>]

\* variant of the member loop without the `continue` of an unchanged member
MemberDiffNoSkip(meeting, mA, mI, id) ==
  LET current == Lookup(mA, id, DefaultMember)
      initial == Lookup(mI, id, DefaultMember)
      attendanceId == IF current.attendanceId # NullId THEN current.attendanceId
                      ELSE initial.attendanceId
  IN IF current.status # Null
       THEN [upserts |-> <<UpsertInput(attendanceId, meeting, "member", id, current.status)>>,
             deletions |-> <<>>, names |-> <<id>>]
     ELSE IF initial.attendanceId # NullId
       THEN [upserts |-> <<>>, deletions |-> <<initial.attendanceId>>, names |-> <<id>>]
     ELSE NoDiff

\* variant of the member loop that upserts but never pushes a deletion
MemberDiffNoDeletion(meeting, mA, mI, id) ==
  LET current == Lookup(mA, id, DefaultMember)
      initial == Lookup(mI, id, DefaultMember)
      attendanceId == IF current.attendanceId # NullId THEN current.attendanceId
                      ELSE initial.attendanceId
  IN IF current.status = initial.status THEN NoDiff
     ELSE IF current.status # Null
       THEN [upserts |-> <<UpsertInput(attendanceId, meeting, "member", id, current.status)>>,
             deletions |-> <<>>, names |-> <<id>>]
     ELSE [upserts |-> <<>>, deletions |-> <<>>, names |-> <<id>>]

\* body of `for (const member of members)` in saveAttendance, for one member
MemberDiff(meeting, mA, mI, id) ==
  LET current == Lookup(mA, id, DefaultMember)
      initial == Lookup(mI, id, DefaultMember)
      attendanceId == IF current.attendanceId # NullId THEN current.attendanceId
                      ELSE initial.attendanceId
  IN IF current.status = initial.status THEN NoDiff
     ELSE IF current.status # Null
       THEN [upserts |-> <<UpsertInput(attendanceId, meeting, "member", id, current.status)>>,
             deletions |-> <<>>, names |-> <<id>>]
     ELSE IF initial.attendanceId # NullId
       THEN [upserts |-> <<>>, deletions |-> <<initial.attendanceId>>, names |-> <<id>>]
     ELSE [upserts |-> <<>>, deletions |-> <<>>, names |-> <<id>>]

\* variant of the guest and pipeliner loops that writes a row with status absent for
\* an un-attended subject instead of deleting its row
ToggleDiffNegativeRow(meeting, kind, gA, gI, id) ==
  LET current == Lookup(gA, id, DefaultGuest)
      initial == Lookup(gI, id, DefaultGuest)
      attendanceId == IF current.attendanceId # NullId THEN current.attendanceId
                      ELSE initial.attendanceId
  IN IF current.attended = initial.attended THEN NoDiff
     ELSE [upserts |-> <<UpsertInput(attendanceId, meeting, kind, id,
                                     IF current.attended THEN "present" ELSE "absent")>>,
           deletions |-> <<>>, names |-> <<id>>]

\* body of `for (const guest of guests)` / `for (const pipeliner of pipelinerEligibility)`
ToggleDiff(meeting, kind, gA, gI, id) ==
  LET current == Lookup(gA, id, DefaultGuest)
      initial == Lookup(gI, id, DefaultGuest)
      attendanceId == IF current.attendanceId # NullId THEN current.attendanceId
                      ELSE initial.attendanceId
  IN IF current.attended = initial.attended THEN NoDiff
     ELSE IF current.attended
       THEN [upserts |-> <<UpsertInput(attendanceId, meeting, kind, id, "present")>>,
             deletions |-> <<>>, names |-> <<id>>]
     ELSE IF initial.attendanceId # NullId
       THEN [upserts |-> <<>>, deletions |-> <<initial.attendanceId>>, names |-> <<id>>]
     ELSE [upserts |-> <<>>, deletions |-> <<>>, names |-> <<id>>]

JoinDiff(a, b) ==
  [upserts |-> a.upserts \o b.upserts, deletions |-> a.deletions \o b.deletions,
   names |-> a.names \o b.names]

RECURSIVE MembersDiffFrom(_, _, _, _)
MembersDiffFrom(i, meeting, mA, mI) ==
  IF i > Len(members) THEN NoDiff
  ELSE JoinDiff(MemberDiff(meeting, mA, mI, members[i]),
                MembersDiffFrom(i + 1, meeting, mA, mI))

RECURSIVE ToggleDiffFrom(_, _, _, _, _, _)
ToggleDiffFrom(i, list, meeting, kind, gA, gI) ==
  IF i > Len(list) THEN NoDiff
  ELSE JoinDiff(ToggleDiff(meeting, kind, gA, gI, list[i]),
                ToggleDiffFrom(i + 1, list, meeting, kind, gA, gI))

\* the three loops of saveAttendance and `upserts = [...memberUpserts, ...guestUpserts,
\* ...pipelinerUpserts]`; deletions and names accumulate in loop order
Diff(meeting, mA, mI, gA, gI, pA, pI) ==
  JoinDiff(MembersDiffFrom(1, meeting, mA, mI),
    JoinDiff(ToggleDiffFrom(1, guests, meeting, "guest", gA, gI),
             ToggleDiffFrom(1, pipelinerEligibility, meeting, "pipeliner", pA, pI)))

\* ------------------------------------------------------------------ merge
\* first loop of the setMemberAttendance updater after a successful save
MemberMergeBase(prev, ref, deletionSet) ==
  [m \in MemberIds |->
     LET existing == Existing(prev, ref, m, DefaultMember)
     IN MemberEntry(IF existing.attendanceId # NullId /\ existing.attendanceId \in deletionSet
                      THEN NullId ELSE existing.attendanceId,
                    existing.status)]

\* variant of the guest / pipeliner loop that leaves out a subject whose row was deleted
ToggleMergeBaseDropsDeleted(list, prev, ref, deletionSet) ==
  [g \in {x \in Range(list) : Existing(prev, ref, x, DefaultGuest).attendanceId
                                  \notin deletionSet} |->
     GuestEntry(Existing(prev, ref, g, DefaultGuest).attendanceId,
                Existing(prev, ref, g, DefaultGuest).attended)]

ToggleMergeBase(list, prev, ref, deletionSet) ==
  [g \in Range(list) |->
     LET existing == Existing(prev, ref, g, DefaultGuest)
     IN GuestEntry(IF existing.attendanceId # NullId /\ existing.attendanceId \in deletionSet
                     THEN NullId ELSE existing.attendanceId,
                   existing.attended)]

\* `for (const record of result.records) if (record.member_id) next[...] = ...`
RECURSIVE MemberRecords(_, _, _)
MemberRecords(i, records, next) ==
  IF i > Len(records) THEN next
  ELSE MemberRecords(i + 1, records,
         IF records[i].member_id # Null
           THEN Put(next, records[i].member_id, MemberEntry(records[i].id, records[i].status))
         ELSE next)

\* variant of the guest / pipeliner loop that keeps the attendanceId the entry had
RECURSIVE ToggleRecordsKeepId(_, _, _, _)
ToggleRecordsKeepId(i, kind, records, next) ==
  IF i > Len(records) THEN next
  ELSE LET sid == IF kind = "guest" THEN records[i].guest_id ELSE records[i].pipeliner_id
       IN ToggleRecordsKeepId(i + 1, kind, records,
            IF sid # Null
              THEN Put(next, sid, GuestEntry(Lookup(next, sid, DefaultGuest).attendanceId,
                                             records[i].status = "present"))
            ELSE next)

\* the same loop for guest_id / pipeliner_id, `attended: record.status === "present"`
RECURSIVE ToggleRecords(_, _, _, _)
ToggleRecords(i, kind, records, next) ==
  IF i > Len(records) THEN next
  ELSE LET sid == IF kind = "guest" THEN records[i].guest_id ELSE records[i].pipeliner_id
       IN ToggleRecords(i + 1, kind, records,
            IF sid # Null
              THEN Put(next, sid, GuestEntry(records[i].id, records[i].status = "present"))
            ELSE next)

MergeMembers(prev, ref, result) ==
  MemberRecords(1, result.records, MemberMergeBase(prev, ref, Range(result.deletedIds)))

MergeToggles(list, kind, prev, ref, result) ==
  ToggleRecords(1, kind, result.records,
                ToggleMergeBase(list, prev, ref, Range(result.deletedIds)))

\* a merge that leaves the baseline where it was
StaleBaseline(prev, ref, result) == ref

\* `memberInitialRef.current = snapshotMemberAttendance(next)`, last line of the updater
MemberBaseline(prev, ref, result) ==
  snapshotMemberAttendance(MergeMembers(prev, ref, result))

\* `guestInitialRef.current = snapshotGuestAttendance(next)` and the pipeliners' line
ToggleBaseline(list, kind, prev, ref, result) ==
  snapshotGuestAttendance(MergeToggles(list, kind, prev, ref, result))


\* ------------------------------------------------------------------ backing store
\* a row of the attendance table
Row(meeting, member, guest, pipeliner, status) ==
  [meeting_id |-> meeting, member_id |-> member, guest_id |-> guest,
   pipeliner_id |-> pipeliner, status |-> status]

EmptyTable == [k \in {} |-> Row(NoMeeting, Null, Null, Null, Null)]

\* DELETE FROM attendance WHERE id = ANY($1) / .delete().in("id", deletions)
DeleteRows(table, deletions) ==
  [k \in DOMAIN table \ Range(deletions) |-> table[k]]

\* coalesce(id, gen_random_uuid()) per payload row: the i-th row's identifier, the
\* generated ones taken from `next` upwards
RECURSIVE NullsBefore(_, _)
NullsBefore(upserts, i) ==
  IF i <= 1 THEN 0
  ELSE NullsBefore(upserts, i - 1) + (IF upserts[i - 1].id = NullId THEN 1 ELSE 0)

NormalizedId(upserts, next, i) ==
  IF upserts[i].id # NullId THEN upserts[i].id ELSE next + NullsBefore(upserts, i)

Generated(upserts) == NullsBefore(upserts, Len(upserts) + 1)

\* INSERT ... ON CONFLICT DO UPDATE refuses to touch one row twice in a statement
NoRowTwice(upserts) ==
  \A i, j \in DOMAIN upserts :
    (i # j /\ upserts[i].id # NullId) => upserts[i].id # upserts[j].id

\* insert into attendance ... on conflict (id) do update set status = excluded.status
RECURSIVE UpsertSql(_, _, _, _)
UpsertSql(i, table, upserts, next) ==
  IF i > Len(upserts) THEN table
  ELSE LET u == upserts[i]
           id == NormalizedId(upserts, next, i)
       IN UpsertSql(i + 1,
            IF id \in DOMAIN table
              THEN [table EXCEPT ![id].status = u.status]
            ELSE Put(table, id, Row(u.meeting_id, u.member_id, u.guest_id,
                                    u.pipeliner_id, u.status)),
            upserts, next)

\* supabase.from("attendance").upsert(sanitizedUpserts, { onConflict: "id" }): the
\* conflicting row takes every column of the payload row
RECURSIVE UpsertClient(_, _, _, _)
UpsertClient(i, table, upserts, next) ==
  IF i > Len(upserts) THEN table
  ELSE LET u == upserts[i]
           id == NormalizedId(upserts, next, i)
       IN UpsertClient(i + 1,
            Put(table, id, Row(u.meeting_id, u.member_id, u.guest_id,
                               u.pipeliner_id, u.status)),
            upserts, next)

\* variant that answers with the rows of the request instead of the rows written
ReturningRequest(table, upserts, next) ==
  [i \in DOMAIN upserts |->
     [id |-> upserts[i].id, member_id |-> upserts[i].member_id,
      guest_id |-> upserts[i].guest_id, pipeliner_id |-> upserts[i].pipeliner_id,
      status |-> upserts[i].status]]

\* returning id, member_id, guest_id, pipeliner_id, status
\* / .select("id, member_id, guest_id, pipeliner_id, status")
Returning(table, upserts, next) ==
  [i \in DOMAIN upserts |->
     LET id == NormalizedId(upserts, next, i)
     IN [id |-> id, member_id |-> table[id].member_id, guest_id |-> table[id].guest_id,
         pipeliner_id |-> table[id].pipeliner_id, status |-> table[id].status]]

\* ------------------------------------------------------------------ gateway values
\* the order of the three `if` branches of POST: connectionString, hasServiceClient, else
SelectTier(e) ==
  IF e.connectionString THEN "direct"
  ELSE IF e.hasServiceClient THEN "service"
  ELSE "auth"

\* NextResponse.json({ success: true, records, deletedIds })
OkResponse(records, deletedIds) ==
  [status |-> 200, success |-> TRUE, error |-> FALSE, records |-> records,
   deletedIds |-> deletedIds]

\* NextResponse.json({ success: false, error }, { status })
ErrorResponse(status) ==
  [status |-> status, success |-> FALSE, error |-> TRUE, records |-> <<>>,
   deletedIds |-> <<>>]

\* what the caller gets when POST throws: the framework's 500, whose body is not the
\* JSON of the route (response.json() rejects on it)
Unhandled ==
  [status |-> 500, success |-> FALSE, error |-> FALSE, records |-> <<>>,
   deletedIds |-> <<>>]

NoResponse ==
  [status |-> 0, success |-> FALSE, error |-> FALSE, records |-> <<>>,
   deletedIds |-> <<>>]

\* variant of the client's test that takes every answer for a success
ResponseOkAlways(response) == TRUE

\* the client's test of an answer: `response.ok` and then `result.success`
ResponseOk(response) == response.status = 200 /\ response.success

\* AttendancePayload
Payload(meeting, upserts, deletions) ==
  [meetingId |-> meeting, upserts |-> upserts, deletions |-> deletions]

NoPayload == Payload(NoMeeting, <<>>, <<>>)

\* ------------------------------------------------------------------ scheduler
\* variant of the effect that does not look at hasUnsavedChanges
AutosaveEffectNoDirty(sel, dirty, sav) ==
  IF sel = NoMeeting \/ sav
    THEN [timer |-> "none", scheduled |-> FALSE]
  ELSE [timer |-> "pending", scheduled |-> TRUE]

\* variant of the effect that does not look at `saving`
AutosaveEffectNoSaving(sel, dirty, sav) ==
  IF sel = NoMeeting \/ ~dirty
    THEN [timer |-> "none", scheduled |-> FALSE]
  ELSE [timer |-> "pending", scheduled |-> TRUE]

\* the autosave effect: its timer is cleared first; then either nothing is scheduled
\* or a new timeout of AUTO_SAVE_DELAY is set
AutosaveEffect(sel, dirty, sav) ==
  IF sel = NoMeeting \/ ~dirty \/ sav
    THEN [timer |-> "none", scheduled |-> FALSE]
  ELSE [timer |-> "pending", scheduled |-> TRUE]

\* variant that sets a timeout only when none is running
RearmKeeps(timer) == IF timer = "due" THEN "due" ELSE "pending"

\* clearTimeout(autoSaveTimer.current) and then setTimeout(..., AUTO_SAVE_DELAY): the
\* timeout that was running is gone and the new one has its whole delay ahead
Rearm(timer) == "pending"

\* hasUnsavedChanges of the render that follows the step
DirtyNext ==
  hasUnsavedChanges(memberAttendance', memberInitialRef', guestAttendance',
                    guestInitialRef', pipelinerAttendance', pipelinerInitialRef')

\* The effect runs again after a render that changed selectedMeetingId,
\* hasUnsavedChanges, saving or saveAttendance (that is, any ledger state).
RunAutosaveEffect ==
  LET e == AutosaveEffect(selectedMeetingId', DirtyNext, saving')
  IN /\ autoSaveTimer' = IF e.timer = "pending" THEN Rearm(autoSaveTimer) ELSE e.timer
     /\ autoSaveScheduled' = e.scheduled

\* variant of the guard that does not look at `saving`
SaveGuardNoSaving(sel, sav) == sel # NoMeeting

\* `if (!selectedMeetingId || saving) return;` negated
SaveGuard(sel, sav) == sel # NoMeeting /\ ~sav

\* variant without the early return of an empty batch
EmptyBatchNever(upserts, deletions) == FALSE

\* `upserts.length === 0 && deletions.length === 0`
EmptyBatch(upserts, deletions) == Len(upserts) = 0 /\ Len(deletions) = 0

\* ------------------------------------------------------------------ history
\* the step just taken: the request and response it handled, the subjects of the
\* batch or of the edit (names), those edited while it was in flight (edited), the step of POST
\* that threw (thrown), the strategies POST ran (tiers)
Ev(name) ==
  [ev |-> name, auto |-> FALSE, payload |-> NoPayload, response |-> NoResponse,
   names |-> <<>>, edited |-> {}, thrown |-> "none", tiers |-> <<>>]

\* a request has been sent and its response has not been handled
InFlight(c) == c.stage \in {"request", "response"}

Pending == {i \in DOMAIN calls : InFlight(calls[i])}

Touch(s) == IF Pending # {} THEN edited \cup s ELSE edited

RemoveAt(seq, i) == SubSeq(seq, 1, i - 1) \o SubSeq(seq, i + 1, Len(seq))

CurrentDiff ==
  Diff(selectedMeetingId, memberAttendance, memberInitialRef, guestAttendance,
       guestInitialRef, pipelinerAttendance, pipelinerInitialRef)

\* one more action of the user
UserActs ==
  /\ actions < MaxActions
  /\ actions' = actions + 1

\* ------------------------------------------------------------------ loadAttendance
\* .from("attendance").select(...).eq("meeting_id", selectedMeetingId)
SelectRows(table, meeting) ==
  [k \in {r \in DOMAIN table : table[r].meeting_id = meeting} |-> table[k]]

\* the rows of `data` that the `for (const row of data)` loop files under subject sid:
\* `if (row.member_id) ... else if (row.guest_id) ... else if (row.pipeliner_id)`
RowsOf(data, kind, sid) ==
  {k \in DOMAIN data :
     CASE kind = "member" -> data[k].member_id = sid
       [] kind = "guest" -> data[k].member_id = Null /\ data[k].guest_id = sid
       [] OTHER -> data[k].member_id = Null /\ data[k].guest_id = Null
                   /\ data[k].pipeliner_id = sid}

\* the subjects of one kind that have a row in `data`
Loaded(data, kind, ids) == {sid \in ids : RowsOf(data, kind, sid) # {}}

KindOf(sid) ==
  IF sid \in MemberIds THEN "member" ELSE IF sid \in GuestIds THEN "guest" ELSE "pipeliner"

\* The select has no ORDER BY: of several rows of one subject any may come last in
\* `data` and stay in the map.  A pick names, per subject, the row that stays.
Picks(data) ==
  {pick \in [Subjects -> DOMAIN data \cup {NullId}] :
     \A sid \in Subjects :
       IF RowsOf(data, KindOf(sid), sid) # {}
         THEN pick[sid] \in RowsOf(data, KindOf(sid), sid)
       ELSE pick[sid] = NullId}

\* memberMap
MemberMap(data, pick) ==
  [sid \in Loaded(data, "member", MemberIds) |->
     MemberEntry(pick[sid], data[pick[sid]].status)]

\* guestMap / pipelinerMap: `attended: row.status === "present"`
ToggleMap(data, kind, ids, pick) ==
  [sid \in Loaded(data, kind, ids) |->
     GuestEntry(pick[sid], data[pick[sid]].status = "present")]

\* ------------------------------------------------------------------ initial state
\* The table when the page opens: rows of both meetings, saved in earlier sessions.
Seeded ==
  Put(Put(Put(EmptyTable,
    1, Row("A", "m1", Null, Null, "present")),
    2, Row("A", Null, Null, "p1", "present")),
    3, Row("B", "m1", Null, Null, "absent"))

\* The page has mounted: the lists are loaded, the first effect has selected meeting A
\* and loadAttendance has filled the ledger from A's rows.
Init ==
  /\ env \in [connectionString : BOOLEAN, hasServiceClient : BOOLEAN]
  /\ store = Seeded
  /\ nextId = Cardinality(DOMAIN store) + 1
  /\ calls = <<>>
  /\ loads = <<>>
  /\ actions = 0
  /\ selectedMeetingId = "A"
  /\ \E pick \in Picks(SelectRows(store, "A")) :
       /\ memberAttendance = MemberMap(SelectRows(store, "A"), pick)
       /\ memberInitialRef = MemberMap(SelectRows(store, "A"), pick)
       /\ guestAttendance = ToggleMap(SelectRows(store, "A"), "guest", GuestIds, pick)
       /\ guestInitialRef = ToggleMap(SelectRows(store, "A"), "guest", GuestIds, pick)
       /\ pipelinerAttendance =
            ToggleMap(SelectRows(store, "A"), "pipeliner", PipelinerIds, pick)
       /\ pipelinerInitialRef =
            ToggleMap(SelectRows(store, "A"), "pipeliner", PipelinerIds, pick)
  /\ saving = FALSE
  /\ autoSaveTimer = "none"
  /\ autoSaveScheduled = FALSE
  /\ edited = {}
  /\ last = Ev("init")

\* ------------------------------------------------------------------ client: edits
\* a click on a status button of member m
MemberStatusChange(m, value) ==
  /\ UserActs
  /\ memberAttendance' =
       handleMemberStatusChange(memberAttendance, memberInitialRef, m,
         ButtonNext(Lookup(memberAttendance, m, DefaultMember).status, value))
  /\ edited' = Touch({m})
  /\ last' = [Ev("edit") EXCEPT !.names = <<m>>]
  /\ UNCHANGED <<guestAttendance, pipelinerAttendance, memberInitialRef, guestInitialRef,
                 pipelinerInitialRef, selectedMeetingId, saving, loads, calls,
                 serverVars>>
  /\ RunAutosaveEffect

\* a click on "Mark All Present"
MarkAllPresent ==
  /\ UserActs
  /\ memberAttendance' = handleMarkAllPresent(memberAttendance, memberInitialRef)
  /\ edited' = Touch(MemberIds)
  /\ last' = [Ev("markAll") EXCEPT !.names = members]
  /\ UNCHANGED <<guestAttendance, pipelinerAttendance, memberInitialRef, guestInitialRef,
                 pipelinerInitialRef, selectedMeetingId, saving, loads, calls,
                 serverVars>>
  /\ RunAutosaveEffect

\* the "Attended" checkbox of guest g: onToggle(event.target.checked)
GuestToggle(g) ==
  /\ UserActs
  /\ guestAttendance' =
       handleGuestToggle(guestAttendance, guestInitialRef, g,
                         ~Lookup(guestAttendance, g, DefaultGuest).attended)
  /\ edited' = Touch({g})
  /\ last' = [Ev("edit") EXCEPT !.names = <<g>>]
  /\ UNCHANGED <<memberAttendance, pipelinerAttendance, memberInitialRef, guestInitialRef,
                 pipelinerInitialRef, selectedMeetingId, saving, loads, calls,
                 serverVars>>
  /\ RunAutosaveEffect

\* the "Attended" checkbox of pipeliner q
PipelinerToggle(q) ==
  /\ UserActs
  /\ pipelinerAttendance' =
       handleGuestToggle(pipelinerAttendance, pipelinerInitialRef, q,
                         ~Lookup(pipelinerAttendance, q, DefaultGuest).attended)
  /\ edited' = Touch({q})
  /\ last' = [Ev("edit") EXCEPT !.names = <<q>>]
  /\ UNCHANGED <<memberAttendance, guestAttendance, memberInitialRef, guestInitialRef,
                 pipelinerInitialRef, selectedMeetingId, saving, loads, calls,
                 serverVars>>
  /\ RunAutosaveEffect

\* ------------------------------------------------------------------ client: save
\* saveAttendance(options) up to `await fetch(...)`
SaveAttendanceCall(auto) ==
  LET d == CurrentDiff
  IN IF SaveGuard(selectedMeetingId, saving) /\ ~EmptyBatch(d.upserts, d.deletions)
       THEN /\ calls' = Append(calls,
                 [auto |-> auto, stage |-> "request",
                  payload |-> Payload(selectedMeetingId, d.upserts, d.deletions),
                  names |-> d.names, response |-> NoResponse])
            /\ saving' = TRUE
            /\ edited' = {}
            /\ last' = [Ev("send") EXCEPT !.auto = auto, !.names = d.names,
                          !.payload = Payload(selectedMeetingId, d.upserts, d.deletions)]
            /\ UNCHANGED <<ledgerVars, selectedMeetingId, loads, serverVars>>
            /\ RunAutosaveEffect
     ELSE /\ last' = [Ev("noop") EXCEPT !.auto = auto]
          /\ autoSaveTimer' = IF auto THEN "none" ELSE autoSaveTimer
          /\ autoSaveScheduled' = IF auto THEN FALSE ELSE autoSaveScheduled
          /\ UNCHANGED <<calls, saving, edited, ledgerVars, selectedMeetingId,
                         loads, serverVars>>

\* a click on "Save Attendance"
ManualSave ==
  /\ UserActs
  /\ SaveAttendanceCall(FALSE)

\* AUTO_SAVE_DELAY passes without the effect running again: the timeout is due
AutoSaveDelayElapses ==
  /\ autoSaveTimer = "pending"
  /\ autoSaveTimer' = "due"
  /\ UNCHANGED <<serverVars, calls, selectedMeetingId, ledgerVars, saving,
                 autoSaveScheduled, loads, actions, edited, last>>

\* the autosave timeout fires: setAutoSaveScheduled(false); saveAttendance({ auto: true })
TimerFire ==
  /\ autoSaveTimer = "due"
  /\ SaveAttendanceCall(TRUE)
  /\ UNCHANGED actions

\* variant of the failure path after which the autosave effect does not run again
SaveFailedNoEffect(i) ==
  /\ saving' = FALSE
  /\ calls' = RemoveAt(calls, i)
  /\ edited' = {}
  /\ last' = [Ev("saveFailed") EXCEPT !.auto = calls[i].auto,
                !.payload = calls[i].payload, !.response = calls[i].response,
                !.names = calls[i].names, !.edited = edited]
  /\ UNCHANGED <<ledgerVars, selectedMeetingId, loads, actions, autoSaveTimer,
                 autoSaveScheduled>>

\* fetch resolves with a non-OK status or success: false, or fetch rejects:
\* `catch` then `finally`
SaveFailed(i) ==
  /\ saving' = FALSE
  /\ calls' = RemoveAt(calls, i)
  /\ edited' = {}
  /\ last' = [Ev("saveFailed") EXCEPT !.auto = calls[i].auto,
                !.payload = calls[i].payload, !.response = calls[i].response,
                !.names = calls[i].names, !.edited = edited]
  /\ UNCHANGED <<ledgerVars, selectedMeetingId, loads, actions>>
  /\ RunAutosaveEffect

FetchReject(i) ==
  /\ i \in DOMAIN calls
  /\ calls[i].stage \in {"request", "response"}
  /\ SaveFailed(i)
  /\ UNCHANGED serverVars

FetchResolveError(i) ==
  /\ i \in DOMAIN calls
  /\ calls[i].stage = "response"
  /\ ~ResponseOk(calls[i].response)
  /\ SaveFailed(i)
  /\ UNCHANGED serverVars

\* fetch resolves with success: the three setXAttendance updaters and their snapshots
FetchResolveOk(i) ==
  /\ i \in DOMAIN calls
  /\ calls[i].stage = "response"
  /\ ResponseOk(calls[i].response)
  /\ LET result == calls[i].response
         nextM == MergeMembers(memberAttendance, memberInitialRef, result)
         nextG == MergeToggles(guests, "guest", guestAttendance, guestInitialRef, result)
         nextP == MergeToggles(pipelinerEligibility, "pipeliner", pipelinerAttendance,
                               pipelinerInitialRef, result)
     IN /\ memberAttendance' = nextM
        /\ memberInitialRef' = MemberBaseline(memberAttendance, memberInitialRef, result)
        /\ guestAttendance' = nextG
        /\ guestInitialRef' =
             ToggleBaseline(guests, "guest", guestAttendance, guestInitialRef, result)
        /\ pipelinerAttendance' = nextP
        /\ pipelinerInitialRef' =
             ToggleBaseline(pipelinerEligibility, "pipeliner", pipelinerAttendance,
                            pipelinerInitialRef, result)
  /\ calls' = [calls EXCEPT ![i].stage = "reload"]
  /\ edited' = {}
  /\ last' = [Ev("merge") EXCEPT !.auto = calls[i].auto, !.payload = calls[i].payload,
                !.response = calls[i].response, !.names = calls[i].names,
                !.edited = edited]
  /\ UNCHANGED <<selectedMeetingId, saving, loads, actions, serverVars>>
  /\ RunAutosaveEffect

\* loadGuests / loadPipeliners have settled: `finally { setSaving(false) }`
SaveFinally(i) ==
  /\ i \in DOMAIN calls
  /\ calls[i].stage = "reload"
  /\ calls' = RemoveAt(calls, i)
  /\ saving' = FALSE
  /\ last' = Ev("finally")
  /\ UNCHANGED <<ledgerVars, selectedMeetingId, loads, actions, edited,
                 serverVars>>
  /\ RunAutosaveEffect


\* ------------------------------------------------------------------ client: load
\* the meeting <Select>: setSelectedMeetingId(value); the effect calls loadAttendance()
SelectMeeting(m) ==
  /\ m \in Meetings
  /\ m # selectedMeetingId
  /\ UserActs
  /\ selectedMeetingId' = m
  /\ loads' = Append(loads, [meetingId |-> m, stage |-> "query", data |-> EmptyTable])
  /\ last' = Ev("select")
  /\ UNCHANGED <<ledgerVars, saving, edited, calls, serverVars>>
  /\ RunAutosaveEffect

\* the select on the attendance table runs: .eq("meeting_id", selectedMeetingId)
LoadQuery(i) ==
  /\ i \in DOMAIN loads
  /\ loads[i].stage = "query"
  /\ loads' = [loads EXCEPT ![i].stage = "result",
                 ![i].data = SelectRows(store, loads[i].meetingId)]
  /\ last' = Ev("loadQuery")
  /\ UNCHANGED <<selectedMeetingId, ledgerVars, schedVars, actions, edited, calls,
                 serverVars>>

\* the select resolves: memberMap / guestMap / pipelinerMap replace the ledger
LoadResolve(i) ==
  /\ i \in DOMAIN loads
  /\ loads[i].stage = "result"
  /\ \E pick \in Picks(loads[i].data) :
       /\ memberAttendance' = MemberMap(loads[i].data, pick)
       /\ memberInitialRef' = snapshotMemberAttendance(MemberMap(loads[i].data, pick))
       /\ guestAttendance' = ToggleMap(loads[i].data, "guest", GuestIds, pick)
       /\ guestInitialRef' =
            snapshotGuestAttendance(ToggleMap(loads[i].data, "guest", GuestIds, pick))
       /\ pipelinerAttendance' = ToggleMap(loads[i].data, "pipeliner", PipelinerIds, pick)
       /\ pipelinerInitialRef' =
            snapshotGuestAttendance(ToggleMap(loads[i].data, "pipeliner", PipelinerIds, pick))
  /\ loads' = RemoveAt(loads, i)
  /\ last' = Ev("loaded")
  /\ UNCHANGED <<selectedMeetingId, saving, actions, edited, calls, serverVars>>
  /\ RunAutosaveEffect

\* the select fails: `catch` sets attendanceError only
LoadReject(i) ==
  /\ i \in DOMAIN loads
  /\ loads' = RemoveAt(loads, i)
  /\ last' = Ev("loadFailed")
  /\ UNCHANGED <<selectedMeetingId, ledgerVars, schedVars, actions, edited, calls,
                 serverVars>>

\* ------------------------------------------------------------------ gateway: POST
\* the awaited steps of the branch of POST a strategy runs, in order
Steps(tier) ==
  IF tier = "direct" THEN <<"connect", "begin", "delete", "upsert", "commit">>
  ELSE <<"client", "delete", "upsert">>

\* is the step run for this payload: `if (deletions.length > 0)`, `if (upserts.length > 0)`
Runs(step, payload) ==
  CASE step = "delete" -> Len(payload.deletions) > 0
    [] step = "upsert" -> Len(payload.upserts) > 0
    [] OTHER -> TRUE

\* the step at which the handler throws, "none" when it returns success: the step the
\* environment fails, or the upsert statement when it names one row twice
Thrown(tier, payload, failAt) ==
  LET pos(step) == CHOOSE k \in DOMAIN Steps(tier) : Steps(tier)[k] = step
      forced == Runs("upsert", payload) /\ ~NoRowTwice(payload.upserts)
  IN IF failAt = "none" THEN (IF forced THEN "upsert" ELSE "none")
     ELSE IF forced /\ pos(failAt) > pos("upsert") THEN "upsert"
     ELSE failAt

\* the upsert statement of the selected strategy
UpsertStatement(tier, table, upserts, next) ==
  IF tier = "direct" THEN UpsertSql(1, table, upserts, next)
  ELSE UpsertClient(1, table, upserts, next)

\* variant in which the API clients too undo the deletions when the upsert fails
CommittedAllOrNothing(tier, before, afterDelete, afterUpsert, thrown) ==
  IF thrown = "none" THEN afterUpsert ELSE before

\* variant without BEGIN: every statement of the direct connection commits on its own
CommittedAutocommit(tier, before, afterDelete, afterUpsert, thrown) ==
  IF thrown \in {"none", "commit"} THEN afterUpsert
  ELSE IF thrown = "upsert" THEN afterDelete
  ELSE before

\* The committed table after the handler returns.  Direct connection: BEGIN ... COMMIT,
\* and ROLLBACK in `catch`, so the statements show only after COMMIT.  API clients:
\* every call commits on its own, and a failed call changes nothing.
Committed(tier, before, afterDelete, afterUpsert, thrown) ==
  IF thrown = "none" THEN afterUpsert
  ELSE IF tier = "direct" THEN before
  ELSE IF thrown = "upsert" THEN afterDelete
  ELSE before

\* `if (client) { await client.query("ROLLBACK") }` in the `catch` of the direct
\* branch: it runs when a step after connect() threw
RunsRollback(tier, thrown) == tier = "direct" /\ thrown \notin {"none", "connect"}

\* the ROLLBACK is awaited inside `catch`: when it rejects, the `return` below it is
\* not reached and the exception leaves POST (after `finally` released the client)
Escapes(tier, thrown, rollbackFails) == rollbackFails /\ RunsRollback(tier, thrown)

\* variant of POST that runs the upsert statement first and the deletions after it
PostUpsertsFirst(tier, table, payload, next, failAt, rollbackFails) ==
  LET thrown == Thrown(tier, payload, failAt)
      runsUpsert == Runs("upsert", payload) /\ NoRowTwice(payload.upserts)
      afterUpsert == IF runsUpsert
                       THEN UpsertStatement(tier, table, payload.upserts, next)
                     ELSE table
      afterDelete == IF Runs("delete", payload)
                       THEN DeleteRows(afterUpsert, payload.deletions) ELSE afterUpsert
      upsertRows == IF runsUpsert THEN Returning(afterUpsert, payload.upserts, next)
                    ELSE <<>>
  IN [store |-> IF thrown = "none" THEN afterDelete ELSE table,
      nextId |-> IF thrown = "none" /\ runsUpsert
                   THEN next + Generated(payload.upserts) ELSE next,
      response |-> IF thrown = "none"
                     THEN OkResponse(upsertRows, payload.deletions)
                   ELSE ErrorResponse(500),
      thrown |-> thrown]

\* POST(request) for a payload with a meetingId: the table and the response it leaves.
\* A transaction whose ROLLBACK failed is not committed either.
Post(tier, table, payload, next, failAt, rollbackFails) ==
  LET thrown == Thrown(tier, payload, failAt)
      afterDelete == IF Runs("delete", payload)
                       THEN DeleteRows(table, payload.deletions) ELSE table
      runsUpsert == Runs("upsert", payload) /\ NoRowTwice(payload.upserts)
      afterUpsert == IF runsUpsert
                       THEN UpsertStatement(tier, afterDelete, payload.upserts, next)
                     ELSE afterDelete
      upsertRows == IF runsUpsert THEN Returning(afterUpsert, payload.upserts, next)
                    ELSE <<>>
  IN [store |-> Committed(tier, table, afterDelete, afterUpsert, thrown),
      nextId |-> IF thrown = "none" /\ runsUpsert
                   THEN next + Generated(payload.upserts) ELSE next,
      response |-> IF thrown = "none"
                     THEN OkResponse(upsertRows, payload.deletions)
                   ELSE IF Escapes(tier, thrown, rollbackFails) THEN Unhandled
                   ELSE ErrorResponse(500),
      thrown |-> IF Escapes(tier, thrown, rollbackFails) THEN "rollback" ELSE thrown]

\* the strategies below one, in the order of the `if`s of POST
Lower(tier) ==
  IF tier = "direct" THEN <<"service", "auth">>
  ELSE IF tier = "service" THEN <<"auth">>
  ELSE <<>>

\* variant in which a `catch` does not return and the handler goes on to the next `if`
CatchDoesNotReturn(tier) == FALSE

\* the `catch` of every branch ends with `return NextResponse.json(..., { status: 500 })`
CatchReturns(tier) == TRUE

\* POST below the test of meetingId: the branch the configuration selects runs; were
\* its `catch` not to return, the branches below would run on the table it left
RECURSIVE Fallback(_, _, _, _, _)
Fallback(tiers, table, payload, next, tried) ==
  LET out == Post(Head(tiers), table, payload, next, "none", FALSE)
  IN IF out.thrown # "none" /\ ~CatchReturns(Head(tiers)) /\ Len(tiers) > 1
       THEN Fallback(Tail(tiers), out.store, payload, out.nextId, Append(tried, Head(tiers)))
     ELSE [store |-> out.store, nextId |-> out.nextId, response |-> out.response,
           thrown |-> out.thrown, tiers |-> Append(tried, Head(tiers))]

Handle(e, table, payload, next, failAt, rollbackFails) ==
  LET tier == SelectTier(e)
      out == Post(tier, table, payload, next, failAt, rollbackFails)
  IN IF out.thrown # "none" /\ ~CatchReturns(tier) /\ Lower(tier) # <<>>
       THEN Fallback(Lower(tier), out.store, payload, out.nextId, <<tier>>)
     ELSE [store |-> out.store, nextId |-> out.nextId, response |-> out.response,
           thrown |-> out.thrown, tiers |-> <<tier>>]

\* variant of the handler without the test of meetingId
ValidateNothing(payload) == TRUE

\* `if (!payload?.meetingId)`: 400 before anything else
Validate(payload) == payload.meetingId # NoMeeting

\* the route handles the request of call i; failAt is the step the environment fails,
\* rollbackFails whether the ROLLBACK that follows that failure fails too
Gateway(i, failAt, rollbackFails) ==
  /\ i \in DOMAIN calls
  /\ calls[i].stage = "request"
  /\ LET payload == calls[i].payload
         tier == SelectTier(env)
     IN IF ~Validate(payload)
          THEN /\ failAt = "none"
               /\ ~rollbackFails
               /\ calls' = [calls EXCEPT ![i].stage = "response",
                              ![i].response = ErrorResponse(400)]
               /\ last' = [Ev("rejected") EXCEPT !.payload = payload,
                             !.response = ErrorResponse(400)]
               /\ UNCHANGED <<store, nextId>>
        ELSE /\ \/ failAt = "none"
                \/ /\ failAt \in Range(Steps(tier))
                   /\ Runs(failAt, payload)
             /\ rollbackFails => RunsRollback(tier, Thrown(tier, payload, failAt))
             /\ Handle(env, store, payload, nextId, failAt, FALSE).nextId <= MaxIds + 1
             /\ LET out == Handle(env, store, payload, nextId, failAt, rollbackFails)
                IN /\ store' = out.store
                   /\ nextId' = out.nextId
                   /\ calls' = [calls EXCEPT ![i].stage = "response",
                                  ![i].response = out.response]
                   /\ last' = [Ev("post") EXCEPT !.payload = payload,
                                 !.response = out.response, !.thrown = out.thrown,
                                 !.tiers = out.tiers]
  /\ UNCHANGED <<env, clientVars>>

FailurePoints == {"none", "connect", "begin", "client", "delete", "upsert", "commit"}

\* ------------------------------------------------------------------ specification
Next ==
  \/ \E m \in MemberIds, value \in Statuses : MemberStatusChange(m, value)
  \/ MarkAllPresent
  \/ \E g \in GuestIds : GuestToggle(g)
  \/ \E q \in PipelinerIds : PipelinerToggle(q)
  \/ ManualSave
  \/ AutoSaveDelayElapses
  \/ TimerFire
  \/ \E i \in DOMAIN calls : FetchReject(i)
  \/ \E i \in DOMAIN calls : FetchResolveError(i)
  \/ \E i \in DOMAIN calls : FetchResolveOk(i)
  \/ \E i \in DOMAIN calls : SaveFinally(i)
  \/ \E m \in Meetings : SelectMeeting(m)
  \/ \E i \in DOMAIN loads : LoadQuery(i)
  \/ \E i \in DOMAIN loads : LoadResolve(i)
  \/ \E i \in DOMAIN loads : LoadReject(i)
  \/ \E i \in DOMAIN calls, failAt \in FailurePoints, rollbackFails \in BOOLEAN :
       Gateway(i, failAt, rollbackFails)

Spec == Init /\ [][Next]_vars

\* ------------------------------------------------------------------ the gateway alone
\* POST /attendance/save answers any caller: one request from a bounded set of bodies,
\* against the table of the initial state.
RequestIds == {NullId, 1, 3}
RequestRows ==
  {UpsertInput(id, "A", KindOf(sid), sid, status) :
     id \in RequestIds, sid \in {"m1", "g1"}, status \in {"present", "absent"}}
RequestUpserts ==
  {<<>>} \cup {<<u>> : u \in RequestRows} \cup {<<u, v>> : u \in RequestRows, v \in RequestRows}
RequestDeletions == {<<>>, <<1>>, <<4>>, <<1, 2>>}
Requests ==
  {Payload("A", u, d) : u \in RequestUpserts, d \in RequestDeletions}
    \cup {Payload(NoMeeting, <<>>, <<1>>)}

\* a caller sends the body
Submit(payload) ==
  /\ last.ev = "init"
  /\ calls = <<>>
  /\ calls' = <<[auto |-> FALSE, stage |-> "request", payload |-> payload,
                 names |-> <<>>, response |-> NoResponse]>>
  /\ last' = [Ev("submit") EXCEPT !.payload = payload]
  /\ UNCHANGED <<serverVars, clientVars>>

\* the caller sends the body it was answered for once more, as the page does when the
\* answer of a save did not arrive and the ledger still holds the same changes
Resubmit ==
  /\ last.ev = "post"
  /\ calls # <<>>
  /\ calls[1].stage = "response"
  /\ calls' = [calls EXCEPT ![1].stage = "request"]
  /\ last' = [Ev("resubmit") EXCEPT !.payload = calls[1].payload,
                !.response = calls[1].response, !.thrown = last.thrown]
  /\ UNCHANGED <<serverVars, clientVars>>

NextGateway ==
  \/ \E payload \in Requests : Submit(payload)
  \/ Resubmit
  \/ \E i \in DOMAIN calls, failAt \in FailurePoints, rollbackFails \in BOOLEAN :
       Gateway(i, failAt, rollbackFails)

GatewaySpec == Init /\ [][NextGateway]_vars

\* ------------------------------------------------------------------ reading the ledger
\* ledger[subject]: the entry of the current map and of the baseline, with the defaults
CurrentEntry(mA, gA, pA, sid) ==
  IF sid \in MemberIds THEN Lookup(mA, sid, DefaultMember)
  ELSE IF sid \in GuestIds THEN Lookup(gA, sid, DefaultGuest)
  ELSE Lookup(pA, sid, DefaultGuest)

\* the status an entry stands for: `status`, or "present" / unset for `attended`
StatusOf(sid, entry) ==
  IF sid \in MemberIds THEN entry.status
  ELSE IF entry.attended THEN "present" ELSE Null

Current(sid) == CurrentEntry(memberAttendance, guestAttendance, pipelinerAttendance, sid)
Baseline(sid) == CurrentEntry(memberInitialRef, guestInitialRef, pipelinerInitialRef, sid)
CurrentAfter(sid) ==
  CurrentEntry(memberAttendance', guestAttendance', pipelinerAttendance', sid)
BaselineAfter(sid) ==
  CurrentEntry(memberInitialRef', guestInitialRef', pipelinerInitialRef', sid)

Dirty(sid) ==
  IsDirty(memberAttendance, memberInitialRef, guestAttendance, guestInitialRef,
          pipelinerAttendance, pipelinerInitialRef, sid)
DirtyAfter(sid) ==
  IsDirty(memberAttendance', memberInitialRef', guestAttendance', guestInitialRef',
          pipelinerAttendance', pipelinerInitialRef', sid)

\* `current.attendanceId ?? initial.attendanceId ?? null`
AttendanceIdOf(sid) ==
  IF Current(sid).attendanceId # NullId THEN Current(sid).attendanceId
  ELSE Baseline(sid).attendanceId

\* the subject an upsert row or a record names
SubjectOf(row) ==
  IF row.member_id # Null THEN row.member_id
  ELSE IF row.guest_id # Null THEN row.guest_id
  ELSE row.pipeliner_id

UpsertsFor(d, sid) == {i \in DOMAIN d.upserts : SubjectOf(d.upserts[i]) = sid}

\* a batch or a payload with nothing in it
NothingToSave(d) == d.upserts = <<>> /\ d.deletions = <<>>

\* ------------------------------------------------------------------ C1
\* C1: in every reachable state at most one batch request has been sent to the gateway
\* and not yet had its response (or its failure) handled by the client.
OneSaveInFlight == Cardinality(Pending) <= 1

\* a save was asked for while a request with the same changes was in flight, and no
\* second request went out
OneSaveInFlightWitness ==
  /\ last.ev = "noop"
  /\ saving
  /\ Cardinality(Pending) = 1
  /\ ~NothingToSave(CurrentDiff)

DirectTierAllOrNothing ==
  [][(last'.ev = "post" /\ SelectTier(env) = "direct" /\ last'.thrown # "none")
       => store' = store]_vars

\* COMMIT failed after a DELETE of a stored row and an upsert had run; the table is whole
DirectTierAllOrNothingWitness ==
  /\ last.ev = "post"
  /\ SelectTier(env) = "direct"
  /\ last.thrown = "commit"
  /\ Range(last.payload.deletions) \cap DOMAIN Seeded # {}
  /\ Len(last.payload.upserts) > 0
  /\ last.response.status = 500
  /\ store = Seeded

\* ------------------------------------------------------------------ C4
\* C4: after the response of a successful save is merged, every subject of that save's
\* batch that was not edited while the save was in flight has current = baseline.
SavedSubjectsClean ==
  last.ev = "merge" => \A x \in Range(last.names) \ last.edited : ~Dirty(x)

\* two edits, one save of both, merged with no edit in between
SavedSubjectsCleanWitness ==
  /\ last.ev = "merge"
  /\ Len(last.names) = 2
  /\ last.edited = {}
  /\ \A x \in Range(last.names) : ~Dirty(x)

\* ------------------------------------------------------------------ C5
\* C5: in every state the batch the save path computes has no upsert, no deletion and
\* no name for a subject whose current value equals its baseline value.
DiffIsMinimal ==
  \A x \in Subjects :
    ~Dirty(x) =>
      /\ UpsertsFor(CurrentDiff, x) = {}
      /\ x \notin Range(CurrentDiff.names)
      /\ AttendanceIdOf(x) # NullId => AttendanceIdOf(x) \notin Range(CurrentDiff.deletions)

\* a batch was sent while one subject was dirty and another clean
DiffIsMinimalWitness ==
  /\ last.ev = "send"
  /\ last.payload = Payload(selectedMeetingId, CurrentDiff.upserts, CurrentDiff.deletions)
  /\ \E x, y \in Subjects :
       /\ Dirty(x) /\ x \in Range(last.names)
       /\ ~Dirty(y) /\ AttendanceIdOf(y) # NullId

\* ------------------------------------------------------------------ C6
\* C6: in every state, for every dirty subject: if its current value is set, the batch
\* has exactly one upsert for it, with the subject's attendanceId (null when it has
\* none), the selected meeting and the current status; if its current value is unset
\* and it has an attendanceId, the batch has that attendanceId among the deletions and
\* no upsert for it.
DiffRule ==
  \A x \in Subjects :
    Dirty(x) =>
      IF StatusOf(x, Current(x)) # Null
        THEN /\ Cardinality(UpsertsFor(CurrentDiff, x)) = 1
             /\ \A i \in UpsertsFor(CurrentDiff, x) :
                  CurrentDiff.upserts[i] =
                    UpsertInput(AttendanceIdOf(x), selectedMeetingId, KindOf(x), x,
                                StatusOf(x, Current(x)))
      ELSE /\ UpsertsFor(CurrentDiff, x) = {}
           /\ AttendanceIdOf(x) # NullId => AttendanceIdOf(x) \in Range(CurrentDiff.deletions)

\* member m1 has row 1 and baseline present; its status was set to unset and the batch
\* sent is deletions = [1] with no upsert
DiffRuleWitness ==
  /\ last.ev = "send"
  /\ Baseline("m1") = MemberEntry(1, "present")
  /\ Current("m1") = MemberEntry(1, Null)
  /\ last.payload.deletions = <<1>>
  /\ last.payload.upserts = <<>>

\* ------------------------------------------------------------------ C7
\* C7: a request never carries an empty batch; and a save, manual or automatic, asked
\* for when the diff is empty sends nothing, does not set `saving` and leaves the
\* ledger as it is.
EmptyBatchNeverSent ==
  [][/\ last'.ev = "send" => ~NothingToSave(last'.payload)
     /\ (last'.ev \in {"send", "noop"} /\ NothingToSave(CurrentDiff))
          => /\ last'.ev = "noop"
             /\ calls' = calls
             /\ saving' = saving
             /\ ledgerVars' = ledgerVars]_vars

\* Save was clicked with nothing to save: no request, not saving
EmptyBatchNeverSentWitness ==
  /\ last.ev = "noop"
  /\ NothingToSave(CurrentDiff)
  /\ calls = <<>>
  /\ ~saving

\* ------------------------------------------------------------------ C8
\* C8: after the merge of a successful response, for every record of the response the
\* ledger entry of the record's subject has current = baseline = the record's status
\* (attended = (status is "present") for guests and pipeliners) and attendanceId = the
\* record's id.
RecordsReconciled ==
  last.ev = "merge" =>
    \A i \in DOMAIN last.response.records :
      LET r == last.response.records[i]
          entry == IF r.member_id # Null THEN MemberEntry(r.id, r.status)
                   ELSE GuestEntry(r.id, r.status = "present")
      IN /\ Current(SubjectOf(r)) = entry
         /\ Baseline(SubjectOf(r)) = entry

\* guest g1 had no row; the upsert went out with id null and the ledger now holds the
\* id the gateway generated
RecordsReconciledWitness ==
  /\ last.ev = "merge"
  /\ \E i \in DOMAIN last.response.records :
       /\ last.payload.upserts[i].id = NullId
       /\ last.payload.upserts[i].guest_id = "g1"
       /\ last.response.records[i].guest_id = "g1"
       /\ last.response.records[i].id \notin DOMAIN Seeded
       /\ Current("g1") = GuestEntry(last.response.records[i].id, TRUE)
       /\ Baseline("g1") = GuestEntry(last.response.records[i].id, TRUE)

\* ------------------------------------------------------------------ C9
\* C9: a successful POST answers with one record per upsert of the request, in order:
\* the row the table now holds under the record's id, with the status of the upsert;
\* the id of the upsert when it had one, otherwise an id that was in the table before
\* under no row and is given to no other record, with the subject of the upsert.
RecordsPerUpsert ==
  [][(last'.ev = "post" /\ last'.response.success) =>
       LET ups == last'.payload.upserts
           recs == last'.response.records
       IN /\ Len(recs) = Len(ups)
          /\ \A i \in DOMAIN ups :
               /\ recs[i].id \in DOMAIN store'
               /\ recs[i].member_id = store'[recs[i].id].member_id
               /\ recs[i].guest_id = store'[recs[i].id].guest_id
               /\ recs[i].pipeliner_id = store'[recs[i].id].pipeliner_id
               /\ recs[i].status = store'[recs[i].id].status
               /\ recs[i].status = ups[i].status
               /\ ups[i].id # NullId => recs[i].id = ups[i].id
               /\ ups[i].id = NullId =>
                    /\ recs[i].id # NullId
                    /\ recs[i].id \notin DOMAIN store
                    /\ \A j \in DOMAIN ups : j # i => recs[j].id # recs[i].id
                    /\ SubjectOf(recs[i]) = SubjectOf(ups[i])]_vars

\* a request with a deletion, an upsert without id and an upsert of row 1 succeeded
RecordsPerUpsertWitness ==
  /\ last.ev = "post"
  /\ last.response.success
  /\ Len(last.payload.upserts) = 2
  /\ Len(last.response.records) = 2
  /\ last.payload.upserts[1].id = NullId
  /\ last.payload.upserts[2].id = 1
  /\ last.response.records[1].id \notin DOMAIN Seeded
  /\ Len(last.payload.deletions) > 0

FailedSaveKeepsLedger ==
  [][(\/ last'.ev = "saveFailed"
      \/ /\ last'.ev = "merge"
         /\ (last'.response.status # 200 \/ ~last'.response.success))
       => ledgerVars' = ledgerVars]_vars

\* the gateway answered 500 to a batch; its subjects are dirty after the failure
FailedSaveKeepsLedgerWitness ==
  /\ last.ev = "saveFailed"
  /\ last.response.status = 500
  /\ Len(last.names) > 0
  /\ \A x \in Range(last.names) : Dirty(x)

\* the ledger has unsaved changes, as the autosave effect sees it
Unsaved ==
  hasUnsavedChanges(memberAttendance, memberInitialRef, guestAttendance, guestInitialRef,
                    pipelinerAttendance, pipelinerInitialRef)

\* ------------------------------------------------------------------ C12
\* C12: right after an automatic save has failed, if a meeting is selected and the
\* ledger has unsaved changes, the autosave timer is pending and autoSaveScheduled is
\* set: the next automatic save needs no edit.
FailedAutoSaveRearms ==
  (last.ev = "saveFailed" /\ last.auto /\ selectedMeetingId # NoMeeting /\ Unsaved)
    => (autoSaveTimer \in {"pending", "due"} /\ autoSaveScheduled /\ ~saving)

\* an automatic save was answered 500 and the timer is pending again
FailedAutoSaveRearmsWitness ==
  /\ last.ev = "saveFailed"
  /\ last.auto
  /\ last.response.status = 500
  /\ Unsaved
  /\ autoSaveTimer = "due"
  /\ ENABLED TimerFire

\* ------------------------------------------------------------------ C13
\* C13: right after a manual save has failed, the next request is not sent by the
\* autosave timer: from that state no automatic save goes out.
FailedManualSaveWaits ==
  [][(last.ev = "saveFailed" /\ ~last.auto) => ~(last'.ev = "send" /\ last'.auto)]_vars

\* ------------------------------------------------------------------ C14
\* C14: a request whose meetingId is missing or empty is answered with a 4xx status and
\* success false, without records or deletedIds; no strategy runs a step for it, and the
\* table and the identifiers handed out are as before.
MissingMeetingRejected ==
  [][(last'.ev \in {"post", "rejected"} /\ last'.payload.meetingId = NoMeeting)
       => /\ last'.ev = "rejected"
          /\ last'.response.status \in 400..499
          /\ ~last'.response.success
          /\ last'.response.records = <<>>
          /\ last'.response.deletedIds = <<>>
          /\ last'.thrown = "none"
          /\ store' = store
          /\ nextId' = nextId]_vars

\* a request without meetingId that names row 1 for deletion was answered 400; row 1 is
\* still there
MissingMeetingRejectedWitness ==
  /\ last.ev = "rejected"
  /\ last.payload.meetingId = NoMeeting
  /\ last.payload.deletions = <<1>>
  /\ last.response.status = 400
  /\ 1 \in DOMAIN store
  /\ store = Seeded

\* ------------------------------------------------------------------ C15
\* C15: a request with a meetingId runs exactly one strategy: the direct connection when
\* a connection string is configured, else the service client when it is configured,
\* else the caller's client; when that strategy throws, the answer is the failure and no
\* other strategy runs.
OneTierPerRequest ==
  [][last'.ev = "post" =>
       /\ Len(last'.tiers) = 1
       /\ last'.tiers[1] = (IF env.connectionString THEN "direct"
                            ELSE IF env.hasServiceClient THEN "service"
                            ELSE "auth")
       /\ last'.thrown # "none" => ~last'.response.success]_vars

\* both the connection string and the service client are configured, the direct
\* connection failed, and nothing else ran
OneTierPerRequestWitness ==
  /\ last.ev = "post"
  /\ env.connectionString
  /\ env.hasServiceClient
  /\ last.thrown = "connect"
  /\ last.tiers = <<"direct">>
  /\ last.response.status = 500

\* ------------------------------------------------------------------ C16
\* C16: whatever step of a request fails (connect, BEGIN, delete, upsert, COMMIT, or
\* the ROLLBACK that follows one of them), the caller receives a response with a 5xx
\* status whose body is { success: false, error }, without records and deletedIds.
FailureAnswered ==
  [][(last'.ev = "post" /\ last'.thrown # "none")
       => /\ last'.response.status \in 500..599
          /\ ~last'.response.success
          /\ last'.response.error
          /\ last'.response.records = <<>>
          /\ last'.response.deletedIds = <<>>]_vars

\* ------------------------------------------------------------------ C17
\* C17: a request that succeeded and is applied once more succeeds with the same
\* records (same identifiers and statuses) and leaves the table as the first
\* application left it.
ReplayIsIdempotent ==
  [][(/\ last.ev = "resubmit"
      /\ last.response.success
      /\ last'.ev = "post"
      /\ last'.thrown = "none")
       => /\ last'.response.records = last.response.records
          /\ store' = store]_vars

\* ------------------------------------------------------------------ C18
\* the step is an edit of the user, made while no save is in flight
EditWhileNotSaving ==
  /\ last'.ev \in {"edit", "markAll"}
  /\ actions' # actions
  /\ ~saving

\* C18 as stated: every edit made while no save is in flight (one that changes an
\* entry, at least) leaves a newly armed timer.
EveryEditArmsTimer ==
  [][(EditWhileNotSaving /\ ledgerVars' # ledgerVars) => autoSaveTimer' = "pending"]_vars

\* C18: every edit made while no save is in flight cancels the timer that was running
\* and, when it leaves unsaved changes, arms one timer with the whole delay ahead
\* (none when it brings the ledger back to its baseline); an automatic save starts
\* only from a timer whose delay has passed since it was armed.
DebounceOnEdit ==
  [][/\ EditWhileNotSaving
          => autoSaveTimer' = (IF selectedMeetingId' # NoMeeting /\ Unsaved'
                                 THEN "pending" ELSE "none")
     /\ (last'.auto /\ last'.ev \in {"send", "noop"} /\ last' # last)
          => autoSaveTimer = "due"]_vars

\* two edits and nothing else: the second came while the timer of the first was
\* running, and its timer is running now
DebounceOnEditWitness ==
  /\ actions = 2
  /\ last.ev = "edit"
  /\ \E m \in MemberIds, g \in GuestIds : Dirty(m) /\ Dirty(g)
  /\ calls = <<>>
  /\ loads = <<>>
  /\ autoSaveTimer = "pending"

\* ------------------------------------------------------------------ C19
\* C19: a manual save that is accepted (a request is sent) leaves the page saving with
\* no timer, whatever timer was running when it was clicked; and as long as a save is
\* in flight no timer is running, so the timer it cancelled starts no second save.
ManualSaveCancelsTimer ==
  [][/\ (last'.ev = "send" /\ ~last'.auto /\ last' # last)
          => /\ autoSaveTimer \in {"pending", "due"}
             /\ saving'
             /\ autoSaveTimer' = "none"
             /\ ~autoSaveScheduled'
     /\ saving' => autoSaveTimer' = "none"]_vars

\* a manual save has just been sent for an edit whose timer was running
ManualSaveCancelsTimerWitness ==
  /\ last.ev = "send"
  /\ ~last.auto
  /\ actions = 2
  /\ saving
  /\ Len(last.payload.upserts) + Len(last.payload.deletions) > 0

\* ------------------------------------------------------------------ C20
\* the rows the table holds for a subject in the meeting of the ledger
StoredRowsOf(sid) ==
  {k \in DOMAIN store : store[k].meeting_id = selectedMeetingId /\ SubjectOf(store[k]) = sid}

\* the entry of the subject shows a status that no row of the table records
Unsent(sid) ==
  IF StoredRowsOf(sid) = {} THEN StatusOf(sid, Current(sid)) # Null
  ELSE \A k \in StoredRowsOf(sid) : store[k].status # StatusOf(sid, Current(sid))

ForeignAfter(sid) ==
  \E id \in {CurrentAfter(sid).attendanceId, BaselineAfter(sid).attendanceId} :
    /\ id # NullId
    /\ id \in DOMAIN store'
    /\ store'[id].meeting_id # selectedMeetingId'

\* C21: once the load that a change of meeting started has been processed, with rows
\* or with an error, no entry is dirty (the edits of the previous meeting are gone) and
\* no entry carries the identifier of a row of another meeting.
MeetingSwitchResets ==
  [][(loads' # loads /\ last'.ev \in {"loaded", "loadFailed"})
       => \A x \in Subjects : ~DirtyAfter(x) /\ ~ForeignAfter(x)]_vars

\* ------------------------------------------------------------------ C22
\* C22: when the rows loaded for the selected meeting are applied right after an edit
\* that was made while they were loading, the guest or pipeliner of that edit (their
\* checkboxes stay on the page while the rows load), if it is dirty, keeps the value
\* it shows.
LoadKeepsUnsavedEdit ==
  [][(/\ last.ev = "edit"
      /\ last'.ev = "loaded"
      /\ Len(loads) = 1
      /\ loads' = <<>>
      /\ loads[1].meetingId = selectedMeetingId)
       => \A x \in Range(last.names) \cap (GuestIds \cup PipelinerIds) :
            Dirty(x) => StatusOf(x, CurrentAfter(x)) = StatusOf(x, Current(x))]_vars

\* ------------------------------------------------------------------ C23
\* C23: the deletedIds of a successful response are exactly the identifiers of the
\* request's deletions that had a row in the table when the request arrived.
DeletedIdsAreRemovedRows ==
  [][(last'.ev = "post" /\ last'.response.success)
       => Range(last'.response.deletedIds)
            = Range(last'.payload.deletions) \cap DOMAIN store]_vars

\* ------------------------------------------------------------------ C24
\* C24: after a save has failed no request is sent before the rows of the meeting have
\* been loaded again; in particular the step that follows the failure sends none.
NoSendAfterFailureBeforeLoad ==
  [][last.ev = "saveFailed" => last'.ev # "send"]_vars

\* ------------------------------------------------------------------ C25
\* C25: in every batch that is sent no upsert has an unset status, every upsert of a
\* guest or a pipeliner has status present, and a guest or pipeliner that was
\* un-attended and has a row is in the batch with the deletion of that row and with
\* no upsert.
UnsetIsDeletion ==
  last.ev = "send" =>
    /\ \A i \in DOMAIN last.payload.upserts :
         LET u == last.payload.upserts[i]
         IN /\ u.status \in Statuses
            /\ (u.guest_id # Null \/ u.pipeliner_id # Null) => u.status = "present"
    /\ \A x \in GuestIds \cup PipelinerIds :
         (Dirty(x) /\ ~Current(x).attended /\ AttendanceIdOf(x) # NullId)
           => /\ AttendanceIdOf(x) \in Range(last.payload.deletions)
              /\ UpsertsFor(last.payload, x) = {}

\* a pipeliner with a row was un-attended and a guest attended: one deletion and one
\* upsert with status present are on their way
UnsetIsDeletionWitness ==
  /\ last.ev = "send"
  /\ \E x \in PipelinerIds :
       Dirty(x) /\ ~Current(x).attended /\ AttendanceIdOf(x) \in Range(last.payload.deletions)
  /\ \E g \in GuestIds : UpsertsFor(last.payload, g) # {}

\* ------------------------------------------------------------------ C26
\* C26: after a successful request, on every tier, an identifier that the request both
\* deletes and upserts names a row of the table, and that row is the upserted one.
DeletionsBeforeUpserts ==
  [][(last'.ev = "post" /\ last'.response.success)
       => \A i \in DOMAIN last'.payload.upserts :
            LET u == last'.payload.upserts[i]
            IN (u.id # NullId /\ u.id \in Range(last'.payload.deletions))
                 => /\ u.id \in DOMAIN store'
                    /\ store'[u.id] = Row(u.meeting_id, u.member_id, u.guest_id,
                                          u.pipeliner_id, u.status)]_vars

\* row 1 (present) was deleted and upserted as absent by one request of an API client
DeletionsBeforeUpsertsWitness ==
  /\ last.ev = "post"
  /\ last.response.success
  /\ last.tiers # <<"direct">>
  /\ 1 \in Range(last.payload.deletions)
  /\ \E i \in DOMAIN last.payload.upserts : last.payload.upserts[i].id = 1
  /\ 1 \in DOMAIN store
  /\ store[1].status = "absent"

\* ------------------------------------------------------------------ C27
\* C27: a request served by the service or the auth client that fails before or in the
\* deletion call leaves the table as it was; one that fails in the upsert call is
\* answered as a failure and leaves the table without the rows of its deletions and
\* with no row of its upserts written.
ApiTiersKeepDeletions ==
  [][(last'.ev = "post" /\ SelectTier(env) # "direct" /\ last'.thrown # "none")
       => /\ ~last'.response.success
          /\ last'.response.status = 500
          /\ nextId' = nextId
          /\ last'.thrown \in {"client", "delete"} => store' = store
          /\ last'.thrown = "upsert"
               => store' = [k \in DOMAIN store \ Range(last'.payload.deletions) |-> store[k]]]_vars

\* the upsert call of an API client failed after row 1 had been deleted
ApiTiersKeepDeletionsWitness ==
  /\ last.ev = "post"
  /\ SelectTier(env) # "direct"
  /\ last.thrown = "upsert"
  /\ 1 \in Range(last.payload.deletions)
  /\ Len(last.payload.upserts) > 0
  /\ 1 \notin DOMAIN store
  /\ ~last.response.success

\* ------------------------------------------------------------------ C28
\* the identifier names a row of the selected meeting for the subject, with the status
\* of the subject's baseline
AgreesWithStore(sid, id) ==
  /\ id \in DOMAIN store
  /\ store[id].meeting_id = selectedMeetingId
  /\ SubjectOf(store[id]) = sid
  /\ store[id].status = StatusOf(sid, Baseline(sid))

\* C28: whenever no save and no load is in flight, every attendanceId of the ledger
\* names a row of the selected meeting, for the same subject, whose status is the
\* baseline of the entry.
LedgerAgreesWithStore ==
  (calls = <<>> /\ loads = <<>> /\ ~saving)
    => \A x \in Subjects :
         \A id \in {Current(x).attendanceId, Baseline(x).attendanceId} \ {NullId} :
           AgreesWithStore(x, id)

\* ------------------------------------------------------------------ C29
\* C29: an edit that brings a subject back to the status of its baseline leaves the
\* subject not dirty and out of the batch that would be sent next (no upsert, no name,
\* no deletion of its row); if no other subject is dirty, no timer is left and there
\* is nothing to send.
RevertLeavesNothing ==
  [][(last'.ev \in {"edit", "markAll"} /\ actions' # actions)
       => \A x \in Range(last'.names) :
            StatusOf(x, CurrentAfter(x)) = StatusOf(x, BaselineAfter(x))
              => /\ ~DirtyAfter(x)
                 /\ UpsertsFor(CurrentDiff', x) = {}
                 /\ x \notin Range(CurrentDiff'.names)
                 /\ \A id \in {CurrentAfter(x).attendanceId, BaselineAfter(x).attendanceId} :
                      id \notin Range(CurrentDiff'.deletions)
                 /\ (\A y \in Subjects \ {x} : ~DirtyAfter(y))
                      => /\ autoSaveTimer' = "none"
                         /\ ~autoSaveScheduled'
                         /\ NothingToSave(CurrentDiff')]_vars

\* a subject was edited and edited back: meeting A, two edits, nothing dirty, no timer
RevertLeavesNothingWitness ==
  /\ actions = 2
  /\ last.ev = "edit"
  /\ selectedMeetingId = "A"
  /\ calls = <<>>
  /\ loads = <<>>
  /\ ~Unsaved
  /\ autoSaveTimer = "none"

\* ------------------------------------------------------------------ C30
\* the subject has an entry in the ledger: a key of its current map or of its baseline
HasEntry(sid) ==
  IF sid \in MemberIds THEN sid \in DOMAIN memberAttendance \cup DOMAIN memberInitialRef
  ELSE IF sid \in GuestIds THEN sid \in DOMAIN guestAttendance \cup DOMAIN guestInitialRef
  ELSE sid \in DOMAIN pipelinerAttendance \cup DOMAIN pipelinerInitialRef
HasEntryAfter(sid) ==
  IF sid \in MemberIds THEN sid \in DOMAIN memberAttendance' \cup DOMAIN memberInitialRef'
  ELSE IF sid \in GuestIds THEN sid \in DOMAIN guestAttendance' \cup DOMAIN guestInitialRef'
  ELSE sid \in DOMAIN pipelinerAttendance' \cup DOMAIN pipelinerInitialRef'

OneSubject(row) ==
  Cardinality({f \in {"member_id", "guest_id", "pipeliner_id"} : row[f] # Null}) = 1

\* C31: every upsert row of a batch that has just been sent names exactly one subject
\* and carries the selected meeting as meeting_id, and every row of the attendance
\* table names exactly one subject.
OneSubjectPerRow ==
  /\ last.ev = "send" =>
       \A i \in DOMAIN last.payload.upserts :
         /\ OneSubject(last.payload.upserts[i])
         /\ last.payload.upserts[i].meeting_id = selectedMeetingId
         /\ last.payload.upserts[i].meeting_id # NoMeeting
  /\ \A id \in DOMAIN store : OneSubject(store[id])

\* a batch with a member row and a guest row was saved: the guest has a new row
OneSubjectPerRowWitness ==
  /\ last.ev = "merge"
  /\ Len(last.response.records) = 2
  /\ \E id \in DOMAIN store :
       /\ id \notin DOMAIN Seeded
       /\ store[id].guest_id \in GuestIds
       /\ store[id].meeting_id = selectedMeetingId

\* ------------------------------------------------------------------ C32
\* C32: a batch sent for one meeting leaves every row of another meeting in the table
\* and unchanged.
WritesStayInMeeting ==
  [][(last'.ev = "post" /\ last' # last)
       => \A id \in DOMAIN store :
            store[id].meeting_id # last'.payload.meetingId
              => (id \in DOMAIN store' /\ store'[id] = store[id])]_vars

\* ------------------------------------------------------------------ C33
\* C33: when a load result fills the ledger and leaves no load in flight, the rows it
\* fills the ledger with were selected for the meeting that is selected now.
LastLoadIsOfSelectedMeeting ==
  [][(last'.ev = "loaded" /\ loads' # loads /\ loads' = <<>>)
       => loads[1].meetingId = selectedMeetingId']_vars

\* ------------------------------------------------------------------ C34
\* C34: no two rows of the attendance table are for the same meeting and the same subject.
OneRowPerMeetingAndSubject ==
  \A id1, id2 \in DOMAIN store :
    (/\ store[id1].meeting_id = store[id2].meeting_id
     /\ SubjectOf(store[id1]) = SubjectOf(store[id2]))
      => id1 = id2

\* ------------------------------------------------------------------ the page after its first batch
\* One subject x of meeting A was edited (a member through the button `value`), the
\* AUTO_SAVE_DELAY passed and the timer called saveAttendance({ auto: true }): the
\* request is on its way.
FirstBatchSent(x, value) ==
  \E pick \in Picks(SelectRows(store, "A")) :
    LET m0 == MemberMap(SelectRows(store, "A"), pick)
        g0 == ToggleMap(SelectRows(store, "A"), "guest", GuestIds, pick)
        p0 == ToggleMap(SelectRows(store, "A"), "pipeliner", PipelinerIds, pick)
        mA == IF x \in MemberIds
                THEN handleMemberStatusChange(m0, m0, x,
                       ButtonNext(Lookup(m0, x, DefaultMember).status, value))
              ELSE m0
        gA == IF x \in GuestIds
                THEN handleGuestToggle(g0, g0, x, ~Lookup(g0, x, DefaultGuest).attended)
              ELSE g0
        pA == IF x \in PipelinerIds
                THEN handleGuestToggle(p0, p0, x, ~Lookup(p0, x, DefaultGuest).attended)
              ELSE p0
        d == Diff("A", mA, m0, gA, g0, pA, p0)
    IN /\ memberAttendance = mA
       /\ memberInitialRef = m0
       /\ guestAttendance = gA
       /\ guestInitialRef = g0
       /\ pipelinerAttendance = pA
       /\ pipelinerInitialRef = p0
       /\ calls = <<[auto |-> TRUE, stage |-> "request",
                     payload |-> Payload("A", d.upserts, d.deletions),
                     names |-> d.names, response |-> NoResponse]>>
       /\ last = [Ev("send") EXCEPT !.auto = TRUE, !.names = d.names,
                    !.payload = Payload("A", d.upserts, d.deletions)]

\* The state of Spec after that edit and that call, from which the user's actions
\* are counted anew.
InitFirstBatch ==
  /\ env \in [connectionString : BOOLEAN, hasServiceClient : BOOLEAN]
  /\ store = Seeded
  /\ nextId = Cardinality(DOMAIN store) + 1
  /\ loads = <<>>
  /\ actions = 0
  /\ selectedMeetingId = "A"
  /\ saving = TRUE
  /\ autoSaveTimer = "none"
  /\ autoSaveScheduled = FALSE
  /\ edited = {}
  /\ \E x \in Subjects, value \in Statuses : FirstBatchSent(x, value)

FirstBatchSpec == InitFirstBatch /\ [][Next]_vars

NextLive ==
  \/ \E m \in MemberIds, value \in Statuses : MemberStatusChange(m, value)
  \/ MarkAllPresent
  \/ \E g \in GuestIds : GuestToggle(g)
  \/ \E q \in PipelinerIds : PipelinerToggle(q)
  \/ ManualSave
  \/ AutoSaveDelayElapses
  \/ TimerFire
  \/ \E i \in DOMAIN calls : FetchResolveOk(i)
  \/ \E i \in DOMAIN calls : SaveFinally(i)
  \/ \E m \in Meetings : SelectMeeting(m)
  \/ \E i \in DOMAIN loads : LoadQuery(i)
  \/ \E i \in DOMAIN loads : LoadResolve(i)
  \/ \E i \in DOMAIN calls : Gateway(i, "none", FALSE)

\* the timeout runs out and fires, a request is handled, an answer is merged, a select
\* is answered: none of them waits for ever
Fairness ==
  /\ WF_vars(AutoSaveDelayElapses)
  /\ WF_vars(TimerFire)
  /\ WF_vars(\E i \in DOMAIN calls : Gateway(i, "none", FALSE))
  /\ WF_vars(\E i \in DOMAIN calls : FetchResolveOk(i))
  /\ WF_vars(\E i \in DOMAIN calls : SaveFinally(i))
  /\ WF_vars(\E i \in DOMAIN loads : LoadQuery(i))
  /\ WF_vars(\E i \in DOMAIN loads : LoadResolve(i))

LiveSpec == Init /\ [][NextLive]_vars /\ Fairness

\* ------------------------------------------------------------------ C36
\* the table records what the entry of the subject shows: rows of the selected meeting
\* with the entry's status, or no row when the entry is unset
RowMatches(sid) ==
  IF StatusOf(sid, Current(sid)) = Null THEN StoredRowsOf(sid) = {}
  ELSE /\ StoredRowsOf(sid) # {}
       /\ \A k \in StoredRowsOf(sid) : store[k].status = StatusOf(sid, Current(sid))

\* C36: once the user has stopped acting with a meeting selected and a subject dirty,
\* the subject eventually is not dirty and the table records the status its entry shows.
EventuallyPersisted ==
  \A x \in Subjects :
    (actions = MaxActions /\ selectedMeetingId # NoMeeting /\ Dirty(x))
      ~> (~Dirty(x) /\ RowMatches(x))

\* ------------------------------------------------------------------ C37
\* the records a response gives for the upsert rows that carry an id
RecordsWithId(payload, response) ==
  {response.records[i] : i \in {j \in DOMAIN response.records :
                                  j \in DOMAIN payload.upserts /\ payload.upserts[j].id # NullId}}

\* C37: a request that is handled without a failure leaves the same table, and is
\* answered with the same records for its upsert rows with an id, whichever of the
\* three strategies handles it.
TiersAgreeOnSuccess ==
  [][(last'.ev = "post" /\ last' # last /\ last'.thrown = "none")
       => LET p == last'.payload
              direct == Post("direct", store, p, nextId, "none", FALSE)
              service == Post("service", store, p, nextId, "none", FALSE)
              auth == Post("auth", store, p, nextId, "none", FALSE)
          IN /\ direct.store = service.store
             /\ service.store = auth.store
             /\ RecordsWithId(p, direct.response) = RecordsWithId(p, service.response)
             /\ RecordsWithId(p, service.response) = RecordsWithId(p, auth.response)]_vars

\* ------------------------------------------------------------------ C38
\* C38: "Mark All Present" leaves every member with status present, with the
\* attendanceId its entry had, and changes no baseline and no guest or pipeliner
\* entry; the diff of the ledger it leaves holds one upsert, with status present, for
\* each member whose baseline is not present, none for a member whose baseline is
\* present, and no deletion of a member's row.
MarkAllPresentFrame ==
  [][(last'.ev = "markAll" /\ actions' # actions)
       => /\ \A m \in MemberIds :
               /\ CurrentAfter(m).status = "present"
               /\ Current(m).attendanceId # NullId
                    => CurrentAfter(m).attendanceId = Current(m).attendanceId
               /\ CurrentAfter(m).attendanceId \in {Current(m).attendanceId,
                                                    Baseline(m).attendanceId}
               /\ BaselineAfter(m) = Baseline(m)
               /\ Cardinality(UpsertsFor(CurrentDiff', m)) =
                    (IF Baseline(m).status # "present" THEN 1 ELSE 0)
               /\ \A i \in UpsertsFor(CurrentDiff', m) :
                    /\ CurrentDiff'.upserts[i].status = "present"
                    /\ CurrentDiff'.upserts[i].id = CurrentAfter(m).attendanceId
               /\ Baseline(m).attendanceId \notin Range(CurrentDiff'.deletions)
                    \/ Baseline(m).attendanceId = NullId
          /\ memberInitialRef' = memberInitialRef
          /\ guestAttendance' = guestAttendance
          /\ guestInitialRef' = guestInitialRef
          /\ pipelinerAttendance' = pipelinerAttendance
          /\ pipelinerInitialRef' = pipelinerInitialRef]_vars

\* all members were marked present in a meeting where member m1's baseline is absent:
\* m1's upsert is in the diff, with the id of its row
MarkAllPresentFrameWitness ==
  /\ last.ev = "markAll"
  /\ Baseline("m1").status = "absent"
  /\ Baseline("m1").attendanceId # NullId
  /\ Current("m1") = MemberEntry(Baseline("m1").attendanceId, "present")
  /\ UpsertsFor(CurrentDiff, "m1") # {}

\* ------------------------------------------------------------------ C39
\* the three maps without the entry of one subject
OtherEntries(mA, gA, pA, sid) ==
  <<[k \in DOMAIN mA \ {sid} |-> mA[k]], [k \in DOMAIN gA \ {sid} |-> gA[k]],
    [k \in DOMAIN pA \ {sid} |-> pA[k]]>>

\* C39: a click on a member's status button or on a guest's or pipeliner's checkbox
\* changes no baseline and no entry of another subject, and leaves the edited
\* subject's attendanceId as it was when it had one (an entry without one takes the
\* baseline's).
EditFrame ==
  [][(last'.ev = "edit" /\ actions' # actions)
       => LET x == last'.names[1]
          IN /\ memberInitialRef' = memberInitialRef
             /\ guestInitialRef' = guestInitialRef
             /\ pipelinerInitialRef' = pipelinerInitialRef
             /\ OtherEntries(memberAttendance', guestAttendance', pipelinerAttendance', x)
                  = OtherEntries(memberAttendance, guestAttendance, pipelinerAttendance, x)
             /\ Current(x).attendanceId # NullId
                  => CurrentAfter(x).attendanceId = Current(x).attendanceId
             /\ CurrentAfter(x).attendanceId \in {Current(x).attendanceId,
                                                  Baseline(x).attendanceId}]_vars

\* member m1, who has row 1, was given another status: the entry still names row 1 and
\* the pipeliner's entry is the loaded one
EditFrameWitness ==
  /\ last.ev = "edit"
  /\ last.names = <<"m1">>
  /\ Current("m1").attendanceId = 1
  /\ Current("m1").status \notin {Baseline("m1").status, Null}
  /\ Baseline("m1") = MemberEntry(1, "present")
  /\ Current("p1") = GuestEntry(2, TRUE)

============================================================================
